---- MODULE Spec2Model ----
(***************************************************************************)
(* Model of the directory service in src/app.py: the request decorators    *)
(* validate_json and recover_identity, and the handlers node_register,     *)
(* proposals, session_stats_create, node_send_stats, save_identity and     *)
(* test_signed_payload, run by concurrent workers against one store.       *)
(*                                                                         *)
(* Strings are sequences of atoms.  An address is a sequence of one-       *)
(* character strings; an Authorization header value is a sequence of       *)
(* header atoms (a space, a word, or the base64 text of some bytes).       *)
(***************************************************************************)
EXTENDS Integers, Sequences, FiniteSets, TLC

\* The fields of the model's records, in the order the records list them.
Fields ==
    [absent |-> "absent", address |-> "address", arg |-> "arg",
     authorization |-> "authorization", before |-> "before", body |-> "body",
     bumped |-> "bumped", bytes |-> "bytes",
     bytes_received |-> "bytes_received", bytes_sent |-> "bytes_sent",
     caller_identity |-> "caller_identity",
     client_bytes_received |-> "client_bytes_received",
     client_bytes_sent |-> "client_bytes_sent", client_ip |-> "client_ip",
     client_updated_at |-> "client_updated_at", code |-> "code",
     consumer_id |-> "consumer_id", created_at |-> "created_at",
     data |-> "data", date |-> "date", done |-> "done",
     endpoint |-> "endpoint", error |-> "error", identity |-> "identity",
     ip |-> "ip", isdict |-> "isdict", json |-> "json", key |-> "key",
     kind |-> "kind", loaded |-> "loaded", local |-> "local",
     members |-> "members", msg |-> "msg", name |-> "name", new |-> "new",
     node_key |-> "node_key", null |-> "null", ok |-> "ok",
     present |-> "present", proposal |-> "proposal",
     provider_id |-> "provider_id", remote_addr |-> "remote_addr",
     resp |-> "resp", row |-> "row",
     service_proposal |-> "service_proposal", succeeded |-> "succeeded",
     t |-> "t", table |-> "table",
     text |-> "text", updated_at |-> "updated_at", v |-> "v",
     value |-> "value"]

\* ------------------------------------------------------------------ bounds
MaxClock == 1
MaxHeaderLen == 3
MaxAvailability == 2

\* ----------------------------------------------------------------- strings
LowerChar(c) ==
    CASE c = "A" -> "a"
      [] c = "B" -> "b"
      [] c = "C" -> "c"
      [] OTHER -> c

\* str.lower()
Lower(s) == [i \in DOMAIN s |-> LowerChar(s[i])]

\* The private keys that sign requests, and the checksum (mixed-case) address
\* of each key's public key.
Keys == {"ka", "kb"}

ChecksumAddress(k) ==
    CASE k = "ka" -> <<"0", "x", "A">>
      [] k = "kb" -> <<"0", "x", "B">>

\* The address recovered when the signature was made over other bytes than
\* the message: an address unrelated to the signing key.
UnrelatedAddress == <<"0", "x", "C">>

Identities == {Lower(ChecksumAddress(k)) : k \in Keys}

\* The spellings a request can give as provider_id.
ProviderIds ==
    {<<"0", "x", "a">>, <<"0", "x", "A">>, <<"0", "x", "b">>, <<"0", "x", "B">>}

\* ------------------------------------------------------------ request data
\* request.data, the raw body: text that is no JSON, a JSON array, or a JSON
\* object with its members.  Absent stands for a member the object lacks.
Absent == [absent |-> TRUE]

TextBody == [kind |-> "text", members |-> Absent]
ArrayBody == [kind |-> "array", members |-> Absent]
ObjectBody(m) == [kind |-> "object", members |-> m]

\* json.loads: ValueError on text that is no JSON, else the parsed value.
json_loads(data) ==
    IF data.kind = "text" THEN [error |-> TRUE, isdict |-> FALSE, value |-> Absent]
    ELSE [error |-> FALSE, isdict |-> data.kind = "object", value |-> data.members]

is_json_dict(data) ==
    LET json_data == json_loads(data) IN
    IF json_data.error THEN FALSE
    ELSE IF ~json_data.isdict THEN FALSE
    ELSE TRUE

\* A value that may be None.
None == [absent |-> TRUE]
Some(v) == [absent |-> FALSE, v |-> v]

\* dict.get(name): the member, or None.
Get(payload, name) == IF name \in DOMAIN payload THEN Some(payload[name]) ELSE None

\* --------------------------------------------------------------- signatures
\* A recoverable signature made with key k over message msg.
Sign(k, msg) == [key |-> k, msg |-> msg, t |-> "sig"]
\* Bytes that are no 65-byte signature.
ShortBytes == [key |-> "none", msg |-> Absent, t |-> "raw"]

\* Header atoms.
SP == [bytes |-> Absent, t |-> "sp", text |-> " "]
Word(w) == [bytes |-> Absent, t |-> "word", text |-> w]
\* base64.b64encode(bytes)
B64(bytes) == [bytes |-> bytes, t |-> "b64", text |-> ""]

\* Number of base64 characters of an atom outside complete padded groups.
B64Chars(atom) ==
    CASE atom.t = "b64" -> 0
      [] atom.text = "Signature" -> 9
      [] atom.text = "Bearer" -> 6
      [] OTHER -> 0

RECURSIVE SumChars(_)
SumChars(token) ==
    IF token = <<>> THEN 0 ELSE B64Chars(token[1]) + SumChars(Tail(token))

RECURSIVE DropSpaces(_)
DropSpaces(s) ==
    IF s = <<>> THEN <<>>
    ELSE IF s[1].t = "sp" THEN DropSpaces(Tail(s))
    ELSE <<s[1]>> \o DropSpaces(Tail(s))

\* base64.b64decode: characters outside the alphabet are discarded; TypeError
\* (incorrect padding) when the characters left do not fill whole groups.
b64decode(token) ==
    LET t == DropSpaces(token) IN
    IF SumChars(t) % 4 # 0 THEN [bytes |-> <<>>, error |-> TRUE]
    ELSE [bytes |-> [i \in DOMAIN t |->
                        IF t[i].t = "b64" THEN t[i].bytes ELSE ShortBytes],
          error |-> FALSE]

\* signature.recover_public_address: ValidationError unless the bytes are one
\* well-formed signature; else the address that signed message with it.
recover_public_address(message, signature_bytes) ==
    IF Len(signature_bytes) # 1 \/ signature_bytes[1].t # "sig"
    THEN [address |-> <<>>, error |-> TRUE]
    ELSE [address |-> IF signature_bytes[1].msg = message
                      THEN ChecksumAddress(signature_bytes[1].key)
                      ELSE UnrelatedAddress,
          error |-> FALSE]

\* str.split(' '): one part more than there are spaces.
RECURSIVE Split(_)
Split(s) ==
    IF s = <<>> THEN << <<>> >>
    ELSE LET rest == Split(Tail(s)) IN
         IF s[1].t = "sp" THEN << <<>> >> \o rest
         ELSE << <<s[1]>> \o rest[1] >> \o Tail(rest)

\* headers.get('Authorization') is None when the request has no such header.
NoHeader == [present |-> FALSE, value |-> <<>>]
Header(v) == [present |-> TRUE, value |-> v]

Ok(identity) == [error |-> "", identity |-> identity, ok |-> TRUE]
Raise(msg) == [error |-> msg, identity |-> <<>>, ok |-> FALSE]

\* The guard without its check of an empty signature.
decode_authorization_header_no_empty_check(authorization, data) ==
    IF ~authorization.present \/ authorization.value = <<>>
    THEN Raise("missing Authorization in request header")
    ELSE LET authorization_parts == Split(authorization.value) IN
    IF Len(authorization_parts) # 2
    THEN Raise("invalid Authorization header value provided")
    ELSE LET authentication_type == authorization_parts[1]
             signature_base64_encoded == authorization_parts[2] IN
    IF authentication_type # <<Word("Signature")>>
    THEN Raise("authentication type have to be Signature")
    ELSE LET decoded == b64decode(signature_base64_encoded) IN
    IF decoded.error
    THEN Raise("signature must be base64 encoded")
    ELSE LET recovered == recover_public_address(data, decoded.bytes) IN
    IF recovered.error
    THEN Raise("invalid signature format")
    ELSE Ok(Lower(recovered.address))

\* The guard that hands the recovered address on as it is.
decode_authorization_header_no_lower(authorization, data) ==
    IF ~authorization.present \/ authorization.value = <<>>
    THEN Raise("missing Authorization in request header")
    ELSE LET authorization_parts == Split(authorization.value) IN
    IF Len(authorization_parts) # 2
    THEN Raise("invalid Authorization header value provided")
    ELSE LET authentication_type == authorization_parts[1]
             signature_base64_encoded == authorization_parts[2] IN
    IF authentication_type # <<Word("Signature")>>
    THEN Raise("authentication type have to be Signature")
    ELSE IF signature_base64_encoded = <<>>
    THEN Raise("signature was not provided")
    ELSE LET decoded == b64decode(signature_base64_encoded) IN
    IF decoded.error
    THEN Raise("signature must be base64 encoded")
    ELSE LET recovered == recover_public_address(data, decoded.bytes) IN
    IF recovered.error
    THEN Raise("invalid signature format")
    ELSE Ok(recovered.address)

decode_authorization_header(authorization, data) ==
    IF ~authorization.present \/ authorization.value = <<>>
    THEN Raise("missing Authorization in request header")
    ELSE LET authorization_parts == Split(authorization.value) IN
    IF Len(authorization_parts) # 2
    THEN Raise("invalid Authorization header value provided")
    ELSE LET authentication_type == authorization_parts[1]
             signature_base64_encoded == authorization_parts[2] IN
    IF authentication_type # <<Word("Signature")>>
    THEN Raise("authentication type have to be Signature")
    ELSE IF signature_base64_encoded = <<>>
    THEN Raise("signature was not provided")
    ELSE LET decoded == b64decode(signature_base64_encoded) IN
    IF decoded.error
    THEN Raise("signature must be base64 encoded")
    ELSE LET recovered == recover_public_address(data, decoded.bytes) IN
    IF recovered.error
    THEN Raise("invalid signature format")
    ELSE Ok(Lower(recovered.address))

\* ------------------------------------------------------------------- state
Workers == {"w1", "w2"}

VARIABLES
    nodes,          \* table Node: node_key -> row
    sessions,       \* table Session: session_key -> row
    availability,   \* table NodeAvailability: the rows in insertion order
    identities,     \* table Identity: identity -> row
    now,            \* what datetime.utcnow() returns
    pc,             \* per worker: "idle", or the commit its request waits at
    req,            \* per worker: the request it handles or handled last
    local,          \* per worker: the handler's locals while it is in flight
    resp,           \* per worker: the response to req, once there is one
    writer,         \* per Node key: caller_identity of the request that wrote the row last
    history         \* what the requests so far did: see NoHistory

vars == <<nodes, sessions, availability, identities, now, pc, req, local, resp, writer,
          history>>
store == <<nodes, sessions, availability, identities>>

EmptyTable == [k \in {} |-> k]

Request(endpoint, authorization, data, remote_addr, arg) ==
    [arg |-> arg, authorization |-> authorization, data |-> data,
     endpoint |-> endpoint, remote_addr |-> remote_addr]
NoRequest == Request("none", NoHeader, TextBody, "", <<>>)

\* jsonify(...), code
Response(code, error, body) == [body |-> body, code |-> code, error |-> error]
NoResponse == Response(0, "", {})

NoLocal == [table |-> "none"]

\* What a handler has done when it returns or reaches db.session.commit().
Finish(code, error, body) ==
    [done |-> TRUE, local |-> NoLocal, resp |-> Response(code, error, body)]
Pending(l) == [done |-> FALSE, local |-> l, resp |-> NoResponse]

\* The record of what has happened, kept for the properties only:
\*   before     from the commit of a node_register until the next request is
\*              taken: the proposal the Node table held under the key just
\*              before the commit;
\*   bumped     the Node keys of the heartbeat timestamp commits, in order;
\*   succeeded  the identities of the node_send_stats answered 200, in order.
NoHistory ==
    [before |-> None, bumped |-> <<>>, succeeded |-> <<>>]

\* How many times x occurs in the sequence s.
Count(s, x) == Cardinality({i \in DOMAIN s : s[i] = x})

Init ==
    /\ nodes = EmptyTable
    /\ sessions = EmptyTable
    /\ availability = <<>>
    /\ identities = EmptyTable
    /\ now = 0
    /\ pc = [w \in Workers |-> "idle"]
    /\ req = [w \in Workers |-> NoRequest]
    /\ local = [w \in Workers |-> NoLocal]
    /\ resp = [w \in Workers |-> NoResponse]
    /\ writer = EmptyTable
    /\ history = NoHistory

\* Time passes between two calls of datetime.utcnow().
Tick ==
    /\ now < MaxClock
    /\ now' = now + 1
    /\ UNCHANGED <<store, pc, req, local, resp, writer, history>>

\* -------------------------------------------------------------- decorators
\* validate_json lets the request through to f.
validate_json(r) == is_json_dict(r.data)

\* The decorator passing a request without Authorization on, with no identity.
recover_identity_missing_ok(r) ==
    IF ~r.authorization.present THEN Ok(<<>>)
    ELSE decode_authorization_header(r.authorization, r.data)

\* The guard that consults the Identity table and turns a claimed identity
\* away.
recover_identity_unclaimed(r) ==
    LET who == decode_authorization_header(r.authorization, r.data) IN
    IF who.ok /\ who.identity \in DOMAIN identities
    THEN Raise("identity already exists")
    ELSE who

\* recover_identity: caller_identity for f, or the error of the 401.
recover_identity(r) == decode_authorization_header(r.authorization, r.data)

\* A handler runs up to its return or its first commit.
Run(w, r, out) ==
    /\ pc[w] = "idle"
    /\ req' = [req EXCEPT ![w] = r]
    /\ resp' = [resp EXCEPT ![w] = out.resp]
    /\ local' = [local EXCEPT ![w] = out.local]
    /\ pc' = [pc EXCEPT ![w] = IF out.done THEN "idle" ELSE "commit"]
    /\ history' = [history EXCEPT !.before = None]

\* ---------------------------------------------------------------- GET /v1/me
test_signed_payload_run(r) ==
    LET who == recover_identity(r) IN
    IF ~who.ok THEN Finish(401, who.error, {})
    ELSE Finish(200, "", {who.identity})

test_signed_payload(w, r) ==
    /\ r.endpoint = "me"
    /\ Run(w, r, test_signed_payload_run(r))
    /\ UNCHANGED <<store, now, writer>>

\* ------------------------------------------------------------------- store
\* Model.query.get(key): the row, or None.
query_get(table, key) == IF key \in DOMAIN table THEN Some(table[key]) ELSE None

Put(table, key, row) ==
    [k \in DOMAIN table \cup {key} |-> IF k = key THEN row ELSE table[k]]

\* The commit whose insert replaces the row that holds the key.
db_commit_upsert(table, l) ==
    IF l.new
    THEN [error |-> FALSE, table |-> Put(table, l.key, l.row)]
    ELSE [error |-> FALSE,
          table |-> Put(table, l.key,
                        [f \in DOMAIN l.row |->
                            IF l.row[f] # l.loaded[f] THEN l.row[f]
                            ELSE table[l.key][f]])]

\* db.session.add(obj); db.session.commit(): an object made by the handler is
\* inserted, and the insert fails when the key is taken; an object the
\* handler loaded is updated in the columns it changed.
db_commit(table, l) ==
    IF l.new
    THEN IF l.key \in DOMAIN table
         THEN [error |-> TRUE, table |-> table]
         ELSE [error |-> FALSE, table |-> Put(table, l.key, l.row)]
    ELSE [error |-> FALSE,
          table |-> Put(table, l.key,
                        [f \in DOMAIN l.row |->
                            IF l.row[f] # l.loaded[f] THEN l.row[f]
                            ELSE table[l.key][f]])]

\* The object a handler holds at a commit.
Object(table, new, key, loaded, row, caller_identity) ==
    [caller_identity |-> caller_identity, key |-> key, loaded |-> loaded,
     new |-> new, row |-> row, table |-> table]

\* handle_error: an exception becomes a 500.
InternalError == Response(500, "IntegrityError", {})

\* The handler's commit of the object it holds against table; after it the
\* handler returns jsonify({}).
Commit(w, table) ==
    LET done == db_commit(table, local[w]) IN
    /\ resp' = [resp EXCEPT ![w] = IF done.error THEN InternalError
                                   ELSE Response(200, "", {})]
    /\ pc' = [pc EXCEPT ![w] = "idle"]
    /\ local' = [local EXCEPT ![w] = NoLocal]
    /\ UNCHANGED <<req, now>>

\* ------------------------------------------------- POST /v1/node_register
\* json.dumps(proposal)
json_dumps(proposal) == [json |-> proposal]

\* Node(node_key)
Node(node_key) == [ip |-> "", proposal |-> [null |-> TRUE], updated_at |-> -1]

\* The handler without the comparison of provider_id with the caller.
node_register_body_no_identity_check(r, caller_identity, table, utcnow) ==
    LET payload == json_loads(r.data).value
        proposal == Get(payload, "service_proposal") IN
    IF proposal.absent THEN Finish(400, "missing service_proposal", {})
    ELSE LET node_key == Get(proposal.v, "provider_id") IN
    IF node_key.absent THEN Finish(400, "missing provider_id", {})
    ELSE LET found == query_get(table, node_key.v)
             node == IF found.absent THEN Node(node_key.v) ELSE found.v IN
         Pending(Object("node", found.absent, node_key.v, node,
                        [node EXCEPT !.ip = r.remote_addr,
                                     !.proposal = json_dumps(proposal.v),
                                     !.updated_at = utcnow],
                        caller_identity))

\* The handler that never looks the Node up and always builds a new one.
node_register_body_always_new(r, caller_identity, table, utcnow) ==
    LET payload == json_loads(r.data).value
        proposal == Get(payload, "service_proposal") IN
    IF proposal.absent THEN Finish(400, "missing service_proposal", {})
    ELSE LET node_key == Get(proposal.v, "provider_id") IN
    IF node_key.absent THEN Finish(400, "missing provider_id", {})
    ELSE IF Lower(node_key.v) # caller_identity
    THEN Finish(403, "provider_id does not match current identity", {})
    ELSE LET node == Node(node_key.v) IN
         Pending(Object("node", TRUE, node_key.v, node,
                        [node EXCEPT !.ip = r.remote_addr,
                                     !.proposal = json_dumps(proposal.v),
                                     !.updated_at = utcnow],
                        caller_identity))

node_register_body(r, caller_identity, table, utcnow) ==
    LET payload == json_loads(r.data).value
        proposal == Get(payload, "service_proposal") IN
    IF proposal.absent THEN Finish(400, "missing service_proposal", {})
    ELSE LET node_key == Get(proposal.v, "provider_id") IN
    IF node_key.absent THEN Finish(400, "missing provider_id", {})
    ELSE IF Lower(node_key.v) # caller_identity
    THEN Finish(403, "provider_id does not match current identity", {})
    ELSE LET found == query_get(table, node_key.v)
             node == IF found.absent THEN Node(node_key.v) ELSE found.v IN
         Pending(Object("node", found.absent, node_key.v, node,
                        [node EXCEPT !.ip = r.remote_addr,
                                     !.proposal = json_dumps(proposal.v),
                                     !.updated_at = utcnow],
                        caller_identity))

\* The decorators in the other order: recover_identity outside validate_json.
node_register_run_auth_first(r, table, utcnow) ==
    LET who == recover_identity(r) IN
    IF ~who.ok THEN Finish(401, who.error, {})
    ELSE IF ~validate_json(r) THEN Finish(400, "payload must be a valid json", {})
    ELSE node_register_body(r, who.identity, table, utcnow)

node_register_run(r, table, utcnow) ==
    IF ~validate_json(r) THEN Finish(400, "payload must be a valid json", {})
    ELSE LET who == recover_identity(r) IN
    IF ~who.ok THEN Finish(401, who.error, {})
    ELSE node_register_body(r, who.identity, table, utcnow)

node_register(w, r) ==
    /\ r.endpoint = "node_register"
    /\ Run(w, r, node_register_run(r, nodes, now))
    /\ UNCHANGED <<store, now, writer>>

node_register_commit(w) ==
    /\ pc[w] = "commit"
    /\ req[w].endpoint = "node_register"
    /\ Commit(w, nodes)
    /\ nodes' = db_commit(nodes, local[w]).table
    /\ writer' = IF db_commit(nodes, local[w]).error THEN writer
                 ELSE Put(writer, local[w].key, local[w].caller_identity)
    /\ history' = IF db_commit(nodes, local[w]).error THEN history
                  ELSE [history EXCEPT !.before =
                            IF local[w].key \in DOMAIN nodes
                            THEN Some(nodes[local[w].key].proposal) ELSE None]
    /\ UNCHANGED <<sessions, availability, identities>>

\* ---------------------------------------------------- GET /v1/proposals
\* Node.get_service_proposals(): the stored proposal, parsed.
get_service_proposals(row) == {row.proposal.json}

\* request.args.get(name) of a query string: <<>> when the request has no
\* parameter, else the parameter's name followed by the characters of its
\* value.
args_get(args, name) ==
    IF args # <<>> /\ Head(args) = name THEN Some(Tail(args)) ELSE None

\* 'if node_key:' — None and the empty string are both false.
Truthy(value) == ~value.absent /\ value.v # <<>>

\* The handler that looks a Node up whenever the parameter is given.
proposals_run_any_key(r, table) ==
    LET node_key == args_get(r.arg, "node_key")
        selected == IF ~node_key.absent
                    THEN (IF query_get(table, node_key.v).absent THEN {} ELSE {node_key.v})
                    ELSE DOMAIN table IN
    Finish(200, "", UNION {get_service_proposals(table[k]) : k \in selected})

proposals_run(r, table) ==
    LET node_key == args_get(r.arg, "node_key")
        selected == IF Truthy(node_key)
                    THEN (IF query_get(table, node_key.v).absent THEN {} ELSE {node_key.v})
                    ELSE DOMAIN table IN
    Finish(200, "", UNION {get_service_proposals(table[k]) : k \in selected})

proposals(w, r) ==
    /\ r.endpoint = "proposals"
    /\ Run(w, r, proposals_run(r, nodes))
    /\ UNCHANGED <<store, now, writer>>

\* ----------------------------------- POST /v1/sessions/<session_key>/stats
\* Session(session_key)
Session(session_key) ==
    [client_bytes_received |-> 0, client_bytes_sent |-> 0, client_ip |-> "",
     client_updated_at |-> -1, consumer_id |-> <<>>]

\* v < 0, where None orders before every number.
Negative(v) == v.absent \/ v.v < 0

\* The handler binding consumer_id on every report, not only on creation.
session_stats_create_body_rebind(r, caller_identity, table, utcnow) ==
    LET session_key == r.arg
        payload == json_loads(r.data).value
        bytes_sent == Get(payload, "bytes_sent")
        bytes_received == Get(payload, "bytes_received") IN
    IF Negative(bytes_sent)
    THEN Finish(400, "bytes_sent should not be negative", {})
    ELSE IF Negative(bytes_received)
    THEN Finish(400, "bytes_received should not be negative", {})
    ELSE LET found == query_get(table, session_key)
             session == IF found.absent THEN Session(session_key) ELSE found.v IN
         Pending(Object("session", found.absent, session_key, session,
                        [session EXCEPT !.client_ip = r.remote_addr,
                                        !.consumer_id = caller_identity,
                                        !.client_bytes_sent = bytes_sent.v,
                                        !.client_bytes_received = bytes_received.v,
                                        !.client_updated_at = utcnow],
                        caller_identity))

\* The handler without the test of session.consumer_id.
session_stats_create_body_no_owner_check(r, caller_identity, table, utcnow) ==
    LET session_key == r.arg
        payload == json_loads(r.data).value
        bytes_sent == Get(payload, "bytes_sent")
        bytes_received == Get(payload, "bytes_received") IN
    IF Negative(bytes_sent)
    THEN Finish(400, "bytes_sent should not be negative", {})
    ELSE IF Negative(bytes_received)
    THEN Finish(400, "bytes_received should not be negative", {})
    ELSE LET found == query_get(table, session_key)
             session == IF found.absent
                        THEN [Session(session_key) EXCEPT
                                 !.client_ip = r.remote_addr,
                                 !.consumer_id = caller_identity]
                        ELSE found.v IN
         Pending(Object("session", found.absent, session_key, session,
                        [session EXCEPT !.client_bytes_sent = bytes_sent.v,
                                        !.client_bytes_received = bytes_received.v,
                                        !.client_updated_at = utcnow],
                        caller_identity))

\* The handler testing bytes_sent only.
session_stats_create_body_one_counter(r, caller_identity, table, utcnow) ==
    LET session_key == r.arg
        payload == json_loads(r.data).value
        bytes_sent == Get(payload, "bytes_sent")
        bytes_received == Get(payload, "bytes_received") IN
    IF Negative(bytes_sent)
    THEN Finish(400, "bytes_sent should not be negative", {})
    ELSE LET found == query_get(table, session_key)
             session == IF found.absent
                        THEN [Session(session_key) EXCEPT
                                 !.client_ip = r.remote_addr,
                                 !.consumer_id = caller_identity]
                        ELSE found.v IN
    IF session.consumer_id # caller_identity
    THEN Finish(403, "session identity does not match current one", {})
    ELSE Pending(Object("session", found.absent, session_key, session,
                        [session EXCEPT !.client_bytes_sent = bytes_sent.v,
                                        !.client_bytes_received = bytes_received.v,
                                        !.client_updated_at = utcnow],
                        caller_identity))

\* The handler that records the source ip of every report.
session_stats_create_body_rewrites_ip(r, caller_identity, table, utcnow) ==
    LET session_key == r.arg
        payload == json_loads(r.data).value
        bytes_sent == Get(payload, "bytes_sent")
        bytes_received == Get(payload, "bytes_received") IN
    IF Negative(bytes_sent)
    THEN Finish(400, "bytes_sent should not be negative", {})
    ELSE IF Negative(bytes_received)
    THEN Finish(400, "bytes_received should not be negative", {})
    ELSE LET found == query_get(table, session_key)
             session == IF found.absent
                        THEN [Session(session_key) EXCEPT
                                 !.consumer_id = caller_identity]
                        ELSE found.v IN
    IF session.consumer_id # caller_identity
    THEN Finish(403, "session identity does not match current one", {})
    ELSE Pending(Object("session", found.absent, session_key, session,
                        [session EXCEPT !.client_ip = r.remote_addr,
                                        !.client_bytes_sent = bytes_sent.v,
                                        !.client_bytes_received = bytes_received.v,
                                        !.client_updated_at = utcnow],
                        caller_identity))

session_stats_create_body(r, caller_identity, table, utcnow) ==
    LET session_key == r.arg
        payload == json_loads(r.data).value
        bytes_sent == Get(payload, "bytes_sent")
        bytes_received == Get(payload, "bytes_received") IN
    IF Negative(bytes_sent)
    THEN Finish(400, "bytes_sent should not be negative", {})
    ELSE IF Negative(bytes_received)
    THEN Finish(400, "bytes_received should not be negative", {})
    ELSE LET found == query_get(table, session_key)
             session == IF found.absent
                        THEN [Session(session_key) EXCEPT
                                 !.client_ip = r.remote_addr,
                                 !.consumer_id = caller_identity]
                        ELSE found.v IN
    IF session.consumer_id # caller_identity
    THEN Finish(403, "session identity does not match current one", {})
    ELSE Pending(Object("session", found.absent, session_key, session,
                        [session EXCEPT !.client_bytes_sent = bytes_sent.v,
                                        !.client_bytes_received = bytes_received.v,
                                        !.client_updated_at = utcnow],
                        caller_identity))

session_stats_create_run(r, table, utcnow) ==
    IF ~validate_json(r) THEN Finish(400, "payload must be a valid json", {})
    ELSE LET who == recover_identity(r) IN
    IF ~who.ok THEN Finish(401, who.error, {})
    ELSE session_stats_create_body(r, who.identity, table, utcnow)

session_stats_create(w, r) ==
    /\ r.endpoint = "stats"
    /\ Run(w, r, session_stats_create_run(r, sessions, now))
    /\ UNCHANGED <<store, now, writer>>

session_stats_create_commit(w) ==
    /\ pc[w] = "commit"
    /\ req[w].endpoint = "stats"
    /\ Commit(w, sessions)
    /\ sessions' = db_commit(sessions, local[w]).table
    /\ UNCHANGED <<nodes, availability, identities, writer, history>>

\* ------------------------------------------------ POST /v1/node_send_stats
\* NodeAvailability(node_key)
NodeAvailability(node_key, utcnow) == [date |-> utcnow, node_key |-> node_key]

\* The handler that makes the Node when it finds none.
node_send_stats_body_create(r, caller_identity, table, utcnow) ==
    LET found == query_get(table, caller_identity)
        node == IF found.absent THEN Node(caller_identity) ELSE found.v IN
    Pending(Object("node", found.absent, caller_identity, node,
                   [node EXCEPT !.updated_at = utcnow], caller_identity))

node_send_stats_body(r, caller_identity, table, utcnow) ==
    LET found == query_get(table, caller_identity) IN
    IF found.absent THEN Finish(400, "node key not found", {})
    ELSE Pending(Object("node", FALSE, caller_identity, found.v,
                        [found.v EXCEPT !.updated_at = utcnow], caller_identity))

node_send_stats_run(r, table, utcnow) ==
    IF ~validate_json(r) THEN Finish(400, "payload must be a valid json", {})
    ELSE LET who == recover_identity(r) IN
    IF ~who.ok THEN Finish(401, who.error, {})
    ELSE node_send_stats_body(r, who.identity, table, utcnow)

node_send_stats(w, r) ==
    /\ r.endpoint = "node_send_stats"
    /\ Len(history.bumped) < MaxAvailability
    /\ Run(w, r, node_send_stats_run(r, nodes, now))
    /\ UNCHANGED <<store, now, writer>>

\* The handler that stores the NodeAvailability row in its first commit and
\* leaves the timestamp for later.
node_send_stats_commit_row_first(w) ==
    /\ pc[w] = "commit"
    /\ req[w].endpoint = "node_send_stats"
    /\ availability' = Append(availability,
                              NodeAvailability(local[w].caller_identity, now))
    /\ pc' = [pc EXCEPT ![w] = "commit2"]
    /\ local' = [local EXCEPT ![w] =
                    Object("availability", TRUE, Len(availability) + 2, None,
                           NodeAvailability(local[w].caller_identity, now),
                           local[w].caller_identity)]
    /\ UNCHANGED <<nodes, sessions, identities, now, req, resp, writer, history>>

\* The first commit: node.updated_at; then na = NodeAvailability(...).
node_send_stats_commit(w) ==
    /\ pc[w] = "commit"
    /\ req[w].endpoint = "node_send_stats"
    /\ nodes' = db_commit(nodes, local[w]).table
    /\ writer' = Put(writer, local[w].key, local[w].caller_identity)
    /\ history' = [history EXCEPT !.bumped = Append(@, local[w].key)]
    /\ pc' = [pc EXCEPT ![w] = "commit2"]
    /\ local' = [local EXCEPT ![w] =
                    Object("availability", TRUE, Len(availability) + 1, None,
                           NodeAvailability(local[w].caller_identity, now),
                           local[w].caller_identity)]
    /\ UNCHANGED <<sessions, availability, identities, now, req, resp>>

\* The second commit that answers 200 and stores no row.
node_send_stats_commit2_no_row(w) ==
    /\ pc[w] = "commit2"
    /\ resp' = [resp EXCEPT ![w] = Response(200, "", {})]
    /\ pc' = [pc EXCEPT ![w] = "idle"]
    /\ local' = [local EXCEPT ![w] = NoLocal]
    /\ history' = [history EXCEPT !.succeeded = Append(@, local[w].caller_identity)]
    /\ UNCHANGED <<store, now, req, writer>>

\* The second commit: the NodeAvailability row.
node_send_stats_commit2(w) ==
    /\ pc[w] = "commit2"
    /\ availability' = Append(availability, local[w].row)
    /\ resp' = [resp EXCEPT ![w] = Response(200, "", {})]
    /\ pc' = [pc EXCEPT ![w] = "idle"]
    /\ local' = [local EXCEPT ![w] = NoLocal]
    /\ history' = [history EXCEPT !.succeeded = Append(@, local[w].caller_identity)]
    /\ UNCHANGED <<nodes, sessions, identities, now, req, writer>>

\* The second commit raises (the insert is refused or the connection is
\* gone): handle_error answers 500 and the row is not stored.
node_send_stats_fail(w) ==
    /\ pc[w] = "commit2"
    /\ resp' = [resp EXCEPT ![w] = InternalError]
    /\ pc' = [pc EXCEPT ![w] = "idle"]
    /\ local' = [local EXCEPT ![w] = NoLocal]
    /\ UNCHANGED <<store, now, req, writer, history>>

\* ---------------------------------------------------- POST /v1/identities
\* Identity(identity)
Identity(identity, utcnow) == [created_at |-> utcnow]

\* The handler without the test for an existing record.
save_identity_body_no_exists_check(r, caller_identity, table, utcnow) ==
    Pending(Object("identity", TRUE, caller_identity, None,
                   Identity(caller_identity, utcnow), caller_identity))

save_identity_body(r, caller_identity, table, utcnow) ==
    LET identity == query_get(table, caller_identity) IN
    IF ~identity.absent THEN Finish(403, "identity already exists", {})
    ELSE Pending(Object("identity", TRUE, caller_identity, None,
                        Identity(caller_identity, utcnow), caller_identity))

save_identity_run(r, table, utcnow) ==
    LET who == recover_identity(r) IN
    IF ~who.ok THEN Finish(401, who.error, {})
    ELSE save_identity_body(r, who.identity, table, utcnow)

save_identity(w, r) ==
    /\ r.endpoint = "identities"
    /\ Run(w, r, save_identity_run(r, identities, now))
    /\ UNCHANGED <<store, now, writer>>

save_identity_commit(w) ==
    /\ pc[w] = "commit"
    /\ req[w].endpoint = "identities"
    /\ Commit(w, identities)
    /\ identities' = db_commit(identities, local[w]).table
    /\ UNCHANGED <<nodes, sessions, availability, writer, history>>

\* ------------------------------------------------------------ request sets
RECURSIVE SeqsUpTo(_, _)
SeqsUpTo(S, n) ==
    IF n = 0 THEN {<<>>}
    ELSE LET shorter == SeqsUpTo(S, n - 1) IN
         shorter \cup {Append(s, a) : s \in {x \in shorter : Len(x) = n - 1}, a \in S}

EmptyBody == TextBody

\* The atoms of the Authorization headers sent with message data.
HeaderAtoms(data) ==
    {SP, Word("Signature"), Word("Bearer"),
     B64(Sign("ka", data)), B64(Sign("ka", ArrayBody)), B64(ShortBytes)}

AnyHeaders(data) ==
    {NoHeader} \cup {Header(v) : v \in SeqsUpTo(HeaderAtoms(data), MaxHeaderLen)}

\* The header tests/utils.py generate_test_authorization makes with key k.
generate_test_authorization(k, message) ==
    Header(<<Word("Signature"), SP, B64(Sign(k, message))>>)

IPs == {"ip1", "ip2"}
SessionKeys == {<<"s1">>, <<"s2">>}
\* The (bytes_sent, bytes_received) pairs reported.
CounterPairs == {<<-1, 1>>, <<1, -1>>, <<0, 0>>, <<1, 1>>}
ProposalNames == {"x", "y"}

\* The headers of the requests to the handlers: none, or the one made with a
\* key over the request's body.
SignedHeadersBy(keys, data) ==
    {NoHeader} \cup {generate_test_authorization(k, data) : k \in keys}
SignedHeaders(data) == SignedHeadersBy(Keys, data)

StatsBodies ==
    {TextBody} \cup
    {ObjectBody([bytes_received |-> p[2], bytes_sent |-> p[1]]) : p \in CounterPairs}

StatsRequests(keys, ips) ==
    UNION {{Request("stats", h, d, ip, k) : h \in SignedHeaders(d), ip \in ips, k \in keys} :
              d \in StatsBodies}

\* A JSON object without members: {}.
EmptyObject == ObjectBody(EmptyTable)

\* {"service_proposal": {"provider_id": p, "name": n}}
RegisterBody(p, n) == ObjectBody([service_proposal |-> [name |-> n, provider_id |-> p]])

RegisterBodies(pids, names) ==
    {TextBody, ArrayBody, EmptyObject}
    \cup {ObjectBody([service_proposal |-> [name |-> n]]) : n \in names}
    \cup {RegisterBody(p, n) : n \in names, p \in pids}

RegisterRequests(pids, names, ips) ==
    UNION {{Request("node_register", h, d, ip, <<>>) : h \in SignedHeaders(d), ip \in ips} :
              d \in RegisterBodies(pids, names)}

\* GET /v1/proposals, /v1/proposals?node_key= and /v1/proposals?node_key=k.
ProposalsRequests(keys) ==
    {Request("proposals", NoHeader, EmptyBody, "ip1", a) :
        a \in {<<>>} \cup {<<"node_key">> \o k : k \in keys \cup {<<>>}}}

HeartbeatRequests ==
    UNION {{Request("node_send_stats", h, d, "ip1", <<>>) : h \in SignedHeaders(d)} :
              d \in {TextBody, EmptyObject}}

IdentityRequests ==
    UNION {{Request("identities", h, d, "ip1", <<>>) : h \in SignedHeaders(d)} :
              d \in {TextBody, EmptyObject}}

MeRequests ==
    {Request("me", h, EmptyBody, "ip1", <<>>) : h \in SignedHeaders(EmptyBody)}

\* -------------------------------------------------- the guard on its own
NextGuard ==
    \E h \in AnyHeaders(EmptyBody) :
        test_signed_payload("w1", Request("me", h, EmptyBody, "ip1", <<>>))

SpecGuard == Init /\ [][NextGuard]_vars

\* ------------------------------------------------------------ C9: the guard
FirstSpace(s) ==
    IF \E i \in DOMAIN s : s[i] = SP
    THEN CHOOSE i \in DOMAIN s : s[i] = SP /\ \A j \in 1..(i - 1) : s[j] # SP
    ELSE 0
CountSpaces(s) == Cardinality({i \in DOMAIN s : s[i] = SP})
\* The text before the first space, and the text after it.
SchemeToken(s) == SubSeq(s, 1, FirstSpace(s) - 1)
ValueToken(s) == SubSeq(s, FirstSpace(s) + 1, Len(s))

GuardMessages ==
    <<"missing Authorization in request header",
      "invalid Authorization header value provided",
      "authentication type have to be Signature",
      "signature was not provided",
      "signature must be base64 encoded",
      "invalid signature format">>

\* The six preconditions of the guard, in order, for header h of a request
\* with body data; twoTokens is the second one.
Preconditions(h, data, twoTokens) ==
    <<h.present /\ h.value # <<>>,
      twoTokens,
      SchemeToken(h.value) = <<Word("Signature")>>,
      ValueToken(h.value) # <<>>,
      ~b64decode(ValueToken(h.value)).error,
      ~recover_public_address(data, b64decode(ValueToken(h.value)).bytes).error>>

\* The first precondition that fails, 0 when all hold.
FirstFailing(p) ==
    IF \A i \in DOMAIN p : p[i] THEN 0
    ELSE CHOOSE i \in DOMAIN p : ~p[i] /\ \A j \in 1..(i - 1) : p[j]

GuardAgrees(w, twoTokens) ==
    LET p == Preconditions(req[w].authorization, req[w].data, twoTokens)
        f == FirstFailing(p) IN
    IF f = 0 THEN resp[w].code = 200 /\ resp[w].error = "" /\ resp[w].body # {}
    ELSE resp[w] = Response(401, GuardMessages[f], {})

\* C9 as amended: the guard reports the first failing precondition in the
\* order missing or empty header, not exactly two tokens after splitting on EVERY
\* space, scheme not 'Signature', empty value, base64 error, invalid signature
\* format; each failure is a 401 without the handler's result, and the handler
\* runs (200 with an identity) only when all six hold.
C9_GuardOrder ==
    \A w \in Workers :
        (req[w].endpoint = "me" /\ resp[w].code # 0) =>
            GuardAgrees(w, CountSpaces(req[w].authorization.value) = 1)

\* C9 witness: a header that passes the first five preconditions and fails
\* the sixth has been answered.
C9_Witness ==
    /\ req["w1"].endpoint = "me"
    /\ resp["w1"] = Response(401, "invalid signature format", {})

\* C9 as stated: the second precondition is "two tokens after splitting on
\* the first space", which holds whenever the header has a space.
C9_AsStated ==
    \A w \in Workers :
        (req[w].endpoint = "me" /\ resp[w].code # 0) =>
            GuardAgrees(w, FirstSpace(req[w].authorization.value) # 0)

\* ---------------------------------------------------- session accounting
NextSession ==
    \/ Tick
    \/ \E w \in Workers :
        \/ \E r \in StatsRequests({<<"s1">>}, {"ip1"}) : session_stats_create(w, r)
        \/ session_stats_create_commit(w)

SpecSession == Init /\ [][NextSession]_vars

\* Worker w takes a request in this step: it was idle, and its request,
\* response or position changes.
Takes(w, endpoint) ==
    /\ pc[w] = "idle"
    /\ <<pc[w], req[w], resp[w], local[w]>>' # <<pc[w], req[w], resp[w], local[w]>>
    /\ req'[w].endpoint = endpoint

\* Worker w ends a request in this step.
Ends(w, endpoint) ==
    /\ pc[w] # "idle"
    /\ pc'[w] = "idle"
    /\ req[w].endpoint = endpoint

\* The identity the guard recovers for request r, <<>> when it rejects r.
Caller(r) == recover_identity(r).identity

\* C1: once a Session exists (a successful report created it and set its
\* consumer_id), every step, whoever reports and whether or not the report is
\* accepted, keeps the Session and its consumer_id.
C1_ConsumerImmutable ==
    [][\A k \in DOMAIN sessions :
          k \in DOMAIN sessions' /\ sessions'[k].consumer_id = sessions[k].consumer_id]_vars

\* C1 witness: a Session bound to 0xa whose owner has reported again after
\* the creation, while another identity's report was turned down.
C1_Witness ==
    /\ <<"s1">> \in DOMAIN sessions
    /\ sessions[<<"s1">>].consumer_id = <<"0", "x", "a">>
    /\ sessions[<<"s1">>].client_bytes_sent = 1
    /\ sessions[<<"s1">>].client_updated_at = 1
    /\ resp["w1"].code = 200 /\ Caller(req["w1"]) = <<"0", "x", "a">>
    /\ resp["w2"].code = 403 /\ Caller(req["w2"]) = <<"0", "x", "b">>

\* The counters of request r are both present and not negative.
NonNegative(r) ==
    /\ is_json_dict(r.data)
    /\ ~Negative(Get(r.data.members, "bytes_sent"))
    /\ ~Negative(Get(r.data.members, "bytes_received"))

\* C2: a report with non-negative counters for an existing Session,
\* authenticated as another identity than its consumer_id, is answered 403 in
\* the step that takes it, and that step leaves the Session table (owner,
\* counters, timestamp) as it was.
C2_NonOwnerRejected ==
    [][\A w \in Workers :
          (/\ Takes(w, "stats")
           /\ req'[w].arg \in DOMAIN sessions
           /\ recover_identity(req'[w]).ok
           /\ Caller(req'[w]) # sessions[req'[w].arg].consumer_id
           /\ NonNegative(req'[w]))
          => (resp'[w].code = 403 /\ pc'[w] = "idle" /\ sessions' = sessions)]_vars

\* C2 witness: identity 0xb was answered 403 for the session 0xa owns.
C2_Witness ==
    /\ <<"s1">> \in DOMAIN sessions
    /\ sessions[<<"s1">>].consumer_id = <<"0", "x", "a">>
    /\ req["w2"].endpoint = "stats" /\ req["w2"].arg = <<"s1">>
    /\ Caller(req["w2"]) = <<"0", "x", "b">>
    /\ NonNegative(req["w2"])
    /\ resp["w2"] = Response(403, "session identity does not match current one", {})

\* C10: an authenticated report with a negative bytes_sent or bytes_received
\* is answered 400 in the step that takes it, the handler stops there, and
\* the Session table is as before: no Session is created and none changes,
\* whoever owns the session.
C10_NegativeRejected ==
    [][\A w \in Workers :
          (/\ Takes(w, "stats")
           /\ is_json_dict(req'[w].data)
           /\ recover_identity(req'[w]).ok
           /\ ~NonNegative(req'[w]))
          => (resp'[w].code = 400 /\ pc'[w] = "idle" /\ local'[w] = NoLocal
              /\ sessions' = sessions)]_vars

\* C10 witness: a negative bytes_received was answered 400 for a session id
\* that has no Session, and there is still none.
C10_Witness ==
    /\ req["w1"].endpoint = "stats"
    /\ is_json_dict(req["w1"].data)
    /\ recover_identity(req["w1"]).ok
    /\ ~Negative(Get(req["w1"].data.members, "bytes_sent"))
    /\ Negative(Get(req["w1"].data.members, "bytes_received"))
    /\ resp["w1"] = Response(400, "bytes_received should not be negative", {})
    /\ req["w1"].arg \notin DOMAIN sessions

\* ------------------------------------------------------- the node registry
NextNode ==
    \/ Tick
    \/ \E r \in RegisterRequests(ProviderIds \ {<<"0", "x", "B">>}, ProposalNames, {"ip1"}) :
          node_register("w1", r)
    \/ node_register_commit("w1")
    \/ \E r \in ProposalsRequests({<<"0", "x", "a">>, <<"0", "x", "A">>}) : proposals("w1", r)

SpecNode == Init /\ [][NextNode]_vars

\* Two workers registering nodes at once.
RaceRequests ==
    {Request("node_register",
             generate_test_authorization("ka", RegisterBody(<<"0", "x", "a">>, n)),
             RegisterBody(<<"0", "x", "a">>, n), ip, <<>>) : n \in ProposalNames, ip \in IPs}

NextRace ==
    \/ Tick
    \/ \E w \in Workers :
        \/ \E r \in RaceRequests : node_register(w, r)
        \/ node_register_commit(w)

SpecRace == Init /\ [][NextRace]_vars

\* ---------------------------------------------------- the identity registry
NextIdentity ==
    \/ Tick
    \/ \E w \in Workers :
        \/ \E r \in IdentityRequests : save_identity(w, r)
        \/ save_identity_commit(w)

SpecIdentity == Init /\ [][NextIdentity]_vars

\* ------------------------------------------------------------- heartbeats
\* Registrations the handler accepts: key ka as 0xa or 0xA, key kb as 0xb.
OwnRegisterRequests ==
    {Request("node_register", generate_test_authorization(c[1], RegisterBody(c[2], "x")),
             RegisterBody(c[2], "x"), "ip1", <<>>) :
        c \in {<<"ka", <<"0", "x", "a">>>>, <<"ka", <<"0", "x", "A">>>>,
               <<"kb", <<"0", "x", "b">>>>}}

\* Nodes register and send heartbeats; the second commit of a heartbeat may
\* fail.
NextHeartbeat ==
    \/ Tick
    \/ \E r \in OwnRegisterRequests : node_register("w1", r)
    \/ node_register_commit("w1")
    \/ \E r \in HeartbeatRequests : node_send_stats("w1", r)
    \/ node_send_stats_commit("w1")
    \/ node_send_stats_commit2("w1")
    \/ node_send_stats_fail("w1")
    \/ \E r \in ProposalsRequests({}) : proposals("w1", r)

SpecHeartbeat == Init /\ [][NextHeartbeat]_vars

\* ------------------------------------------------------------ all endpoints
\* A header of another scheme.
BearerHeader(data) == Header(<<Word("Bearer"), SP, B64(Sign("ka", data))>>)

\* One worker; requests without a header, signed with one key, or with a
\* header of another scheme.
OneKey(requests) ==
    {r \in requests : ~r.authorization.present
                      \/ r.authorization = generate_test_authorization("ka", r.data)}
    \cup {[r EXCEPT !.authorization = BearerHeader(r.data)] : r \in requests}

Next ==
    \/ Tick
    \/ \E r \in OneKey(RegisterRequests({<<"0", "x", "a">>}, {"x"}, {"ip1"})) :
          node_register("w1", r)
    \/ node_register_commit("w1")
    \/ \E r \in ProposalsRequests({}) : proposals("w1", r)
    \/ \E r \in OneKey(StatsRequests({<<"s1">>}, {"ip1"})) :
          session_stats_create("w1", r)
    \/ session_stats_create_commit("w1")
    \/ \E r \in OneKey(HeartbeatRequests) : node_send_stats("w1", r)
    \/ node_send_stats_commit("w1")
    \/ node_send_stats_commit2("w1")
    \/ \E r \in OneKey(IdentityRequests) : save_identity("w1", r)
    \/ save_identity_commit("w1")
    \/ \E r \in OneKey(MeRequests) : test_signed_payload("w1", r)

Spec == Init /\ [][Next]_vars

\* --------------------------------------------- the guard beside the store
\* Headers for a body: none, a signature of the body by either key, a
\* signature of another body, and bytes that are no signature.
AuthHeaders(data) ==
    SignedHeaders(data)
    \cup {generate_test_authorization("ka", ArrayBody),
          Header(<<Word("Signature"), SP, B64(ShortBytes)>>)}

AuthRequests(endpoint) ==
    UNION {{Request(endpoint, h, d, "ip1", <<>>) : h \in AuthHeaders(d)} :
              d \in {TextBody, EmptyObject}}

\* Two workers; identities are claimed while /v1/me is asked.
NextAuth ==
    \E w \in Workers :
        \/ \E r \in AuthRequests("me") : test_signed_payload(w, r)
        \/ \E r \in AuthRequests("identities") : save_identity(w, r)
        \/ save_identity_commit(w)

SpecAuth == Init /\ [][NextAuth]_vars

\* -------------------------------------------------- requests that succeed
\* Reports with counters that are not negative, as key ka.
OwnStatsRequests ==
    {Request("stats", generate_test_authorization("ka", d), d, ip, k) :
        d \in {ObjectBody([bytes_received |-> c, bytes_sent |-> c]) : c \in {0, 1}},
        ip \in IPs, k \in SessionKeys}

OwnHeartbeatRequests ==
    {Request("node_send_stats", generate_test_authorization(k, EmptyObject),
             EmptyObject, "ip1", <<>>) : k \in Keys}

OwnIdentityRequests ==
    {Request("identities", generate_test_authorization("ka", EmptyObject),
             EmptyObject, "ip1", <<>>)}

\* One worker and every mutating endpoint, over two Node keys and two
\* session ids.
NextFrame ==
    \/ \E r \in OwnRegisterRequests : node_register("w1", r)
    \/ node_register_commit("w1")
    \/ \E r \in OwnStatsRequests : session_stats_create("w1", r)
    \/ session_stats_create_commit("w1")
    \/ \E r \in OwnHeartbeatRequests : node_send_stats("w1", r)
    \/ node_send_stats_commit("w1")
    \/ node_send_stats_commit2("w1")
    \/ \E r \in OwnIdentityRequests : save_identity("w1", r)
    \/ save_identity_commit("w1")

SpecFrame == Init /\ [][NextFrame]_vars

\* ------------------------------------------------------------- the claims
\* The service_proposal and provider_id of a node_register request, None
\* when the body has none.
ProposalOf(r) ==
    IF is_json_dict(r.data) THEN Get(r.data.members, "service_proposal") ELSE None
ProviderIdOf(r) ==
    IF ProposalOf(r).absent THEN None ELSE Get(ProposalOf(r).v, "provider_id")

\* C3: a node_register whose provider_id, lower-cased, differs from the
\* identity the guard recovered is answered 403 in the step that takes it,
\* and the Node table (the set of records, each proposal, ip and timestamp)
\* is the same after the step as before.
C3_MismatchRejected ==
    [][\A w \in Workers :
          (/\ Takes(w, "node_register")
           /\ recover_identity(req'[w]).ok
           /\ ~ProviderIdOf(req'[w]).absent
           /\ Lower(ProviderIdOf(req'[w]).v) # Caller(req'[w]))
          => (resp'[w].code = 403 /\ pc'[w] = "idle" /\ local'[w] = NoLocal
              /\ nodes' = nodes)]_vars

\* C3 witness: with a Node record stored, identity 0xb asked to register
\* provider_id 0xA and was answered 403.
C3_Witness ==
    /\ DOMAIN nodes # {}
    /\ req["w1"].endpoint = "node_register"
    /\ Caller(req["w1"]) = <<"0", "x", "b">>
    /\ ~ProviderIdOf(req["w1"]).absent
    /\ ProviderIdOf(req["w1"]).v = <<"0", "x", "A">>
    /\ resp["w1"] = Response(403, "provider_id does not match current identity", {})

\* C4: the key of every Node record equals the lower-case identity recovered
\* from the signature of the request that wrote the record last.
C4_KeyIsIdentity == \A k \in DOMAIN nodes : k = writer[k]

\* C5: a Claim by an identity that has a record is answered 403 in the step
\* that takes it; no step changes or removes an existing Identity record
\* (its creation timestamp included); and a Claim is answered 200 exactly
\* when its commit finds no record for the identity and creates it.
C5_ClaimOnce ==
    [][/\ \A w \in Workers :
            (/\ Takes(w, "identities")
             /\ recover_identity(req'[w]).ok
             /\ Caller(req'[w]) \in DOMAIN identities)
            => (resp'[w].code = 403 /\ pc'[w] = "idle" /\ local'[w] = NoLocal)
       /\ \A k \in DOMAIN identities :
            k \in DOMAIN identities' /\ identities'[k] = identities[k]
       /\ \A w \in Workers :
            Ends(w, "identities") =>
                /\ (resp'[w].code = 200) = (Caller(req[w]) \notin DOMAIN identities)
                /\ Caller(req[w]) \in DOMAIN identities']_vars

\* C5 witness: 0xa claimed at time 0 and got 200; at time 1 it claimed again
\* and got 403, and the record still carries time 0.
C5_Witness ==
    /\ <<"0", "x", "a">> \in DOMAIN identities
    /\ identities[<<"0", "x", "a">>].created_at = 0
    /\ now = 1
    /\ Caller(req["w1"]) = <<"0", "x", "a">>
    /\ resp["w1"] = Response(403, "identity already exists", {})

\* A node_register request the handler accepts: signed, with a provider_id
\* that is the caller's identity.
Accepted(r) ==
    /\ r.endpoint = "node_register"
    /\ recover_identity(r).ok
    /\ ~ProviderIdOf(r).absent
    /\ Lower(ProviderIdOf(r).v) = Caller(r)

\* The request of worker w wrote row: its proposal and its ip.
WroteRow(w, row) ==
    /\ row.proposal = json_dumps(ProposalOf(req[w]).v)
    /\ row.ip = req[w].remote_addr

\* C6: when two workers have each finished a node_register of the same
\* identity, both were answered 200 and the Node record is the one written
\* by one of the two requests.
C6_Serializable ==
    (/\ pc["w1"] = "idle" /\ pc["w2"] = "idle"
     /\ Accepted(req["w1"]) /\ Accepted(req["w2"])
     /\ ProviderIdOf(req["w1"]).v = ProviderIdOf(req["w2"]).v)
    => /\ resp["w1"].code = 200
       /\ resp["w2"].code = 200
       /\ LET k == ProviderIdOf(req["w1"]).v IN
          k \in DOMAIN nodes /\ (WroteRow("w1", nodes[k]) \/ WroteRow("w2", nodes[k]))

Protected == {"node_register", "stats", "node_send_stats", "identities", "me"}
Validated == {"node_register", "stats", "node_send_stats"}
Mutating == {"node_register", "stats", "node_send_stats", "identities"}

\* Worker w's step answers its request with code, invokes no handler and
\* changes no stored record.
Refused(w, code) ==
    /\ resp'[w].code = code
    /\ pc'[w] = "idle"
    /\ local'[w] = NoLocal
    /\ store' = store

\* C7 as amended: a request without an Authorization header is answered 401
\* on identities and me, and on node_register, sessions/{id}/stats and
\* node_send_stats when its body is a JSON object; on these three it is
\* answered 400 when the body is no JSON object.  In every case no Node,
\* Session, NodeAvailability or Identity record is created or changed.
C7_MissingHeader ==
    [][\A w \in Workers : \A e \in Protected :
          (Takes(w, e) /\ ~req'[w].authorization.present)
          => IF e \in Validated /\ ~is_json_dict(req'[w].data)
             THEN Refused(w, 400)
             ELSE Refused(w, 401)]_vars

\* C7 witness: with records stored, node_send_stats came without a header
\* and with an object body, and was answered 401.
C7_Witness ==
    /\ DOMAIN nodes # {}
    /\ DOMAIN identities # {}
    /\ req["w1"].endpoint = "node_send_stats"
    /\ ~req["w1"].authorization.present
    /\ is_json_dict(req["w1"].data)
    /\ resp["w1"] = Response(401, "missing Authorization in request header", {})

\* C7 as stated: every request without an Authorization header to a
\* protected endpoint is answered 401 and changes nothing.
C7_AsStated ==
    [][\A w \in Workers : \A e \in Protected :
          (Takes(w, e) /\ ~req'[w].authorization.present) => Refused(w, 401)]_vars

\* C8 as amended: on node_register, sessions/{id}/stats and node_send_stats
\* a request whose body is no JSON object is answered 400 whatever its
\* Authorization header is, and changes no stored record; identities does
\* not look at the body.
C8_FormatFirst ==
    [][\A w \in Workers : \A e \in Validated :
          (Takes(w, e) /\ ~is_json_dict(req'[w].data)) => Refused(w, 400)]_vars

\* C8 witness: a validly signed node_register with a body that is no JSON
\* was answered 400 while records were stored.
C8_Witness ==
    /\ DOMAIN sessions # {}
    /\ req["w1"].endpoint = "node_register"
    /\ recover_identity(req["w1"]).ok
    /\ req["w1"].data = TextBody
    /\ resp["w1"] = Response(400, "payload must be a valid json", {})

\* C8 as stated: the same on every mutating endpoint, identities included.
C8_AsStated ==
    [][\A w \in Workers : \A e \in Mutating :
          (Takes(w, e) /\ ~is_json_dict(req'[w].data)) => Refused(w, 400)]_vars

\* The Node table holds, under the provider_id of request r, the proposal
\* that r carries.
Registered(r, table) ==
    /\ ~ProviderIdOf(r).absent
    /\ ProviderIdOf(r).v \in DOMAIN table
    /\ table[ProviderIdOf(r).v].proposal = json_dumps(ProposalOf(r).v)

\* C11: a node_register the handler accepts (provider_id is the caller's
\* identity) whose proposal is the one already stored under its provider_id
\* is taken to its commit and answered 200 there, and the commit leaves the
\* set of Node keys and every stored proposal as they were; only ip and
\* updated_at may differ.
C11_Idempotent ==
    [][\A w \in Workers :
          /\ (Takes(w, "node_register") /\ Accepted(req'[w])
                /\ Registered(req'[w], nodes))
             => pc'[w] = "commit"
          /\ (Ends(w, "node_register") /\ Registered(req[w], nodes))
             => /\ resp'[w].code = 200
                /\ DOMAIN nodes' = DOMAIN nodes
                /\ \A k \in DOMAIN nodes : nodes'[k].proposal = nodes[k].proposal]_vars

\* C11 witness: 0xa registered a proposal at time 0 and the same proposal
\* again at time 1; the second commit found the row of time 0, was answered
\* 200 and left the proposal as it was.
C11_Witness ==
    /\ ~history.before.absent
    /\ <<"0", "x", "a">> \in DOMAIN nodes
    /\ nodes[<<"0", "x", "a">>].updated_at = 1
    /\ nodes[<<"0", "x", "a">>].proposal = history.before.v
    /\ req["w1"].endpoint = "node_register"
    /\ Registered(req["w1"], nodes)
    /\ resp["w1"] = Response(200, "", {})
    /\ Cardinality(DOMAIN nodes) = 1

\* C12: a node_send_stats whose signature the guard accepts, for an identity
\* that is the key of no Node record, is answered 400 in the step that takes
\* it ('node key not found' when its body is a JSON object), and that step
\* leaves the Node table and the NodeAvailability rows (and every other
\* record) as they were.
C12_UnknownNode ==
    [][\A w \in Workers :
          (/\ Takes(w, "node_send_stats")
           /\ recover_identity(req'[w]).ok
           /\ Caller(req'[w]) \notin DOMAIN nodes)
          => /\ Refused(w, 400)
             /\ nodes' = nodes /\ availability' = availability
             /\ is_json_dict(req'[w].data) => resp'[w].error = "node key not found"]_vars

\* C12 witness: 0xb has a Node record and a heartbeat row, 0xa has none;
\* 0xa sent a heartbeat and was answered 400.
C12_Witness ==
    /\ DOMAIN nodes = {<<"0", "x", "b">>}
    /\ Len(availability) = 1
    /\ req["w1"].endpoint = "node_send_stats"
    /\ Caller(req["w1"]) = <<"0", "x", "a">>
    /\ resp["w1"] = Response(400, "node key not found", {})

\* The NodeAvailability rows of node key x.
RowsOf(rows, x) == Cardinality({i \in DOMAIN rows : rows[i].node_key = x})

\* Every identity has as many rows as node_send_stats answered it 200.
OneRowPerHeartbeat(rows, h) ==
    \A x \in Identities : RowsOf(rows, x) = Count(h.succeeded, x)

\* C13: every step keeps the NodeAvailability rows there are, in place and
\* unchanged; a node_send_stats answered 200 adds exactly one row, whose
\* node key is the caller's identity; a step that does not answer a
\* node_send_stats with 200 adds none; and the number of rows of an identity
\* is the number of node_send_stats that were answered 200 for it.
C13_AppendOnly ==
    [][/\ Len(availability') >= Len(availability)
       /\ SubSeq(availability', 1, Len(availability)) = availability
       /\ \A w \in Workers :
            (Ends(w, "node_send_stats") /\ resp'[w].code = 200)
            => /\ Len(availability') = Len(availability) + 1
               /\ availability'[Len(availability')].node_key = Caller(req[w])
       /\ (\A w \in Workers : ~(Ends(w, "node_send_stats") /\ resp'[w].code = 200))
            => availability' = availability
       /\ OneRowPerHeartbeat(availability, history)
       /\ OneRowPerHeartbeat(availability', history')]_vars

\* C13 witness: 0xa and 0xb each sent one heartbeat that was answered 200,
\* the second just now, and each has one row.
C13_Witness ==
    /\ Len(availability) = 2
    /\ RowsOf(availability, <<"0", "x", "a">>) = 1
    /\ RowsOf(availability, <<"0", "x", "b">>) = 1
    /\ Count(history.succeeded, <<"0", "x", "a">>) = 1
    /\ req["w1"].endpoint = "node_send_stats"
    /\ resp["w1"] = Response(200, "", {})
    /\ pc["w1"] = "idle"

\* Worker w's step answers 200 with the stored proposals of the Node records
\* selected (the one under the node_key parameter when filtered, else all) and
\* changes no stored record.
Discovers(w, filtered) ==
    LET node_key == args_get(req'[w].arg, "node_key")
        selected == IF filtered THEN {node_key.v} \cap DOMAIN nodes ELSE DOMAIN nodes IN
    /\ resp'[w].code = 200
    /\ pc'[w] = "idle"
    /\ resp'[w].body = {nodes[k].proposal.json : k \in selected}
    /\ store' = store

\* The proposal stored under a key is the one of the last node_register for
\* that key that was answered 200: such a step stores its proposal, and no
\* other step changes the proposal of a record.
LastRegistered ==
    /\ \A w \in Workers :
          (Ends(w, "node_register") /\ resp'[w].code = 200)
          => /\ ProviderIdOf(req[w]).v \in DOMAIN nodes'
             /\ nodes'[ProviderIdOf(req[w]).v].proposal.json = ProposalOf(req[w]).v
    /\ \A k \in DOMAIN nodes :
          (\A w \in Workers : ~(/\ Ends(w, "node_register") /\ resp'[w].code = 200
                                /\ ProviderIdOf(req[w]).v = k))
          => k \in DOMAIN nodes' /\ nodes'[k].proposal = nodes[k].proposal

\* C14 as amended: GET /v1/proposals without an Authorization header is
\* answered 200 and changes no stored record; with a non-empty node_key it
\* returns the stored proposal of the Node with that key, or nothing when
\* there is none; without node_key, or with an empty one, it returns the
\* stored proposal of every Node; and the stored proposal of a Node is the
\* one of its most recent node_register that was answered 200.
C14_Discovery ==
    [][/\ \A w \in Workers :
            (Takes(w, "proposals") /\ ~req'[w].authorization.present)
            => Discovers(w, Truthy(args_get(req'[w].arg, "node_key")))
       /\ LastRegistered]_vars

\* C14 witness: 0xA registered x at time 0 and 0xa registered y at time 1;
\* /v1/proposals?node_key=0xa without a header returned y alone.
C14_Witness ==
    /\ DOMAIN nodes = {<<"0", "x", "a">>, <<"0", "x", "A">>}
    /\ nodes[<<"0", "x", "a">>].updated_at = 1
    /\ nodes[<<"0", "x", "A">>].updated_at = 0
    /\ nodes[<<"0", "x", "A">>].proposal.json.name = "x"
    /\ req["w1"].endpoint = "proposals"
    /\ req["w1"].arg = <<"node_key", "0", "x", "a">>
    /\ ~req["w1"].authorization.present
    /\ resp["w1"] = Response(200, "", {[name |-> "y", provider_id |-> <<"0", "x", "a">>]})

\* C14 as stated: whenever the node_key parameter is given, only the Node
\* with that key is returned, and nothing when there is none.
C14_AsStated ==
    [][/\ \A w \in Workers :
            (Takes(w, "proposals") /\ ~req'[w].authorization.present)
            => Discovers(w, ~args_get(req'[w].arg, "node_key").absent)
       /\ LastRegistered]_vars

\* What the guard did with worker w's request, as far as the worker shows
\* it: the 401 and its message, or the identity the handler holds at its
\* commit, or the identity /v1/me answered; for an identities request that
\* has been answered, only that the guard let it through.
GuardPassed(w) == pc[w] = "commit" \/ resp[w].code # 401
GuardShown(w) ==
    IF pc[w] = "commit" THEN {Ok(local[w].caller_identity)}
    ELSE IF resp[w].code = 401 THEN {Raise(resp[w].error)}
    ELSE IF req[w].endpoint = "me" THEN {Ok(i) : i \in resp[w].body}
    ELSE {}

\* Two workers whose requests carry the same header and the same body got
\* the same outcome from the guard.
SameOutcome ==
    \A v, w \in Workers :
        (/\ req[v].endpoint \in {"me", "identities"}
         /\ req[w].endpoint \in {"me", "identities"}
         /\ req[v].authorization = req[w].authorization
         /\ req[v].data = req[w].data)
        => /\ GuardPassed(v) = GuardPassed(w)
           /\ (GuardShown(v) # {} /\ GuardShown(w) # {}) => GuardShown(v) = GuardShown(w)

SameProposals(before, after) ==
    \A r \in ProposalsRequests(DOMAIN before \cup DOMAIN after) :
        proposals_run(r, after) = proposals_run(r, before)

\* C17: the first commit of a node_send_stats changes the Node's timestamp
\* and stores no row; the second stores the row and changes no Node; so a
\* request that fails between the two has left the set of Node keys and
\* every Node's proposal as they were before it, /v1/proposals answers as
\* before it, and no row is stored.  In every state a node has at most as
\* many NodeAvailability rows as heartbeat timestamp commits were applied
\* to it.
C17_BumpThenAppend ==
    [][/\ \A w \in Workers :
            (pc[w] = "commit" /\ pc'[w] = "commit2")
            => /\ availability' = availability
               /\ DOMAIN nodes' = DOMAIN nodes
               /\ \A k \in DOMAIN nodes : nodes'[k].proposal = nodes[k].proposal
               /\ nodes'[local[w].key].updated_at = local[w].row.updated_at
               /\ SameProposals(nodes, nodes')
               /\ Count(history'.bumped, local[w].key)
                    = Count(history.bumped, local[w].key) + 1
       /\ \A w \in Workers :
            (pc[w] = "commit2" /\ pc'[w] = "idle")
            => /\ nodes' = nodes
               /\ IF resp'[w].code = 200
                  THEN availability' = Append(availability, local[w].row)
                  ELSE availability' = availability
       /\ \A k \in Identities :
            /\ RowsOf(availability, k) <= Count(history.bumped, k)
            /\ RowsOf(availability', k) <= Count(history'.bumped, k)]_vars

\* C17 witness: 0xa registered at time 0; its heartbeat at time 1 committed
\* the timestamp and then failed: the answer is 500, the Node carries time 1
\* and its proposal, and 0xa has one timestamp commit and no row.
C17_Witness ==
    /\ req["w1"].endpoint = "node_send_stats"
    /\ Caller(req["w1"]) = <<"0", "x", "a">>
    /\ resp["w1"] = InternalError
    /\ pc["w1"] = "idle"
    /\ <<"0", "x", "a">> \in DOMAIN nodes
    /\ nodes[<<"0", "x", "a">>].updated_at = 1
    /\ nodes[<<"0", "x", "a">>].proposal.json.name = "x"
    /\ Count(history.bumped, <<"0", "x", "a">>) = 1
    /\ RowsOf(availability, <<"0", "x", "a">>) = 0

\* Identity x has had a node_register answered 200: it wrote a Node record.
HasRegistered(x) == \E k \in DOMAIN writer : writer[k] = x

\* C18: a node_send_stats with a JSON object body, authenticated as an
\* identity that has had a node_register answered 200 (under any letter case
\* of provider_id the handler accepts), finds the identity's Node record: it
\* goes on to its commit and is not answered 400 'node key not found'.
C18_FindsOwnNode ==
    [][\A w \in Workers :
          (/\ Takes(w, "node_send_stats")
           /\ is_json_dict(req'[w].data)
           /\ recover_identity(req'[w]).ok
           /\ HasRegistered(Caller(req'[w])))
          => (pc'[w] = "commit" /\ resp'[w].code # 400)]_vars

\* bytes_sent and bytes_received of a Session row, and of a report.
StoredCounters(row) == <<row.client_bytes_sent, row.client_bytes_received>>
ReportedCounters(r) ==
    <<Get(r.data.members, "bytes_sent").v, Get(r.data.members, "bytes_received").v>>

\* C19: with two workers reporting for one session id in any interleaving,
\* as the same or as different identities: a Session record is created, or
\* its counters change, only in the commit of a report answered 200 whose
\* caller is the consumer_id stored after the step and, if the record
\* existed, before it; the counters are then those of that report when no
\* other report was committed since the handler read the record; and a
\* report answered other than 200 (a non-owner's 403, the 500 of the later
\* of two racing first reports) leaves the Session table as it was.
C19_OwnerCounters ==
    [][/\ \A s \in DOMAIN sessions' :
            (\/ s \notin DOMAIN sessions
             \/ StoredCounters(sessions'[s]) # StoredCounters(sessions[s]))
            => \E w \in Workers :
                  /\ Ends(w, "stats") /\ req[w].arg = s /\ resp'[w].code = 200
                  /\ Caller(req[w]) = sessions'[s].consumer_id
                  /\ s \in DOMAIN sessions => Caller(req[w]) = sessions[s].consumer_id
                  /\ (local[w].new \/ local[w].loaded = sessions[s])
                     => StoredCounters(sessions'[s]) = ReportedCounters(req[w])
       /\ \A w \in Workers :
            (Ends(w, "stats") /\ resp'[w].code # 200) => sessions' = sessions
       /\ \A w \in Workers :
            (Takes(w, "stats") /\ pc'[w] = "idle") => sessions' = sessions]_vars

\* C19 witness: 0xa and 0xb raced with first reports for s1; 0xa's commit
\* came first and made the record with its counters 1 and 1, 0xb's report of
\* 0 and 0 was answered 500 and the record is 0xa's.
C19_Witness ==
    /\ DOMAIN sessions = {<<"s1">>}
    /\ sessions[<<"s1">>].consumer_id = <<"0", "x", "a">>
    /\ StoredCounters(sessions[<<"s1">>]) = <<1, 1>>
    /\ Caller(req["w1"]) = <<"0", "x", "a">> /\ resp["w1"] = Response(200, "", {})
    /\ ReportedCounters(req["w1"]) = <<1, 1>>
    /\ Caller(req["w2"]) = <<"0", "x", "b">> /\ resp["w2"] = InternalError
    /\ ReportedCounters(req["w2"]) = <<0, 0>>

\* The step leaves every row of the table but the one under key as it was,
\* and adds at most the row under key.
OnlyRow(before, after, key) ==
    /\ DOMAIN before \subseteq DOMAIN after
    /\ DOMAIN after \subseteq DOMAIN before \cup {key}
    /\ \A k \in DOMAIN before \ {key} : after[k] = before[k]

\* The step removes no row of the table.
KeepsRows(before, after) == DOMAIN before \subseteq DOMAIN after

====
